---- MODULE Spec2Model ----
(***************************************************************************)
(* Model of the antimeridian-aware bounding boxes of geojson-classes       *)
(* (src/src/BBox.ts): construction and validation, the longitude-range     *)
(* helpers, contains, overlaps, intersect, center, toArray and BBox.from,   *)
(* and of the feature list of FeatureCollection                            *)
(* (src/src/FeatureCollection.ts): clone, add, addFrom, removeAt, clear.   *)
(*                                                                         *)
(* Coordinates are integers (degrees).  A bbox is the 4-element array      *)
(* <<lon1, lat1, lon2, lat2>> the class stores in its `bbox` field.        *)
(***************************************************************************)
EXTENDS Integers, Sequences, FiniteSets, TLC

VARIABLES
    input,  \* the arguments of the call: the raw array handed to `new BBox(...)`,
            \* the range handed to a longitude helper, ... (<<>> when none)
    thePoint,  \* the coordinates of the point handed to `contains` (<<>> when none)
    a,      \* first box: its stored `bbox` array, or NoBox
    b,      \* second box: its stored `bbox` array, or NoBox
    op,     \* the operation that ran last
    ret,    \* what that operation returned
    heap,   \* the arrays that objects share by reference: address -> contents
    refs    \* which address each named reference holds (<<>> when unused)

vars == <<input, thePoint, a, b, op, ret, heap, refs>>

(***************************************************************************)
(* Program constants                                                       *)
(***************************************************************************)
MaxLon == 180
MaxLat == 90
FullTurn == 360
HalfTurn == 180

(***************************************************************************)
(* Bounds of the model                                                     *)
(***************************************************************************)
\* Longitudes are drawn from 2*LonDiv+1 evenly spaced values in [-180, 180].
LonDiv == 2
\* Latitudes are drawn from 2*LatDiv+1 evenly spaced values in [-90, 90].
LatDiv == 1
\* How far beyond the legal range an input coordinate may lie.
Excess == 1

LonGrid == { ((2 * MaxLon * k) \div (2 * LonDiv)) - MaxLon : k \in 0 .. 2 * LonDiv }
LatGrid == { ((2 * MaxLat * k) \div (2 * LatDiv)) - MaxLat : k \in 0 .. 2 * LatDiv }

\* Raw inputs also include coordinates just outside the legal range.
RawLons == LonGrid \cup { -MaxLon - e : e \in 1 .. Excess } \cup { MaxLon + e : e \in 1 .. Excess }
RawLats == LatGrid \cup { -MaxLat - e : e \in 1 .. Excess } \cup { MaxLat + e : e \in 1 .. Excess }
Elevations == { 0, 7 }

NoBox == <<>>
NoRet == [kind |-> "none"]

(***************************************************************************)
(* Helpers                                                                 *)
(***************************************************************************)
\* A plausible slip: Math.min written where Math.max was meant.
Max_AsMin(x, y) == IF x <= y THEN x ELSE y

\* A plausible slip: Math.max written where Math.min was meant.
Min_AsMax(x, y) == IF x >= y THEN x ELSE y

Max(x, y) == IF x >= y THEN x ELSE y
Min(x, y) == IF x <= y THEN x ELSE y

(***************************************************************************)
(* ensureBBox2D: a 4-element array is kept, a 6-element one loses its      *)
(* elevations (0-based indices 0, 1, 3, 4).                                *)
(***************************************************************************)
ensureBBox2D(bbox) ==
    IF Len(bbox) = 4
    THEN bbox
    ELSE <<bbox[1], bbox[2], bbox[4], bbox[5]>>

\* Getters
lon1(box) == box[1]
lat1(box) == box[2]
lon2(box) == box[3]
lat2(box) == box[4]

(***************************************************************************)
(* The constructor.  Returns the stored array, or the message of the       *)
(* Error it throws.                                                        *)
(***************************************************************************)
Thrown(msg) == [kind |-> "throw", bbox |-> NoBox, error |-> msg]
Built(box) == [kind |-> "bbox", bbox |-> box, error |-> ""]

\* A plausible slip: the latitude-order check is dropped.
BBoxCtor_NoLatOrderCheck(bbox) ==
    LET this == ensureBBox2D(bbox) IN
    IF lat1(this) < -MaxLat THEN Thrown("Invalid bbox: lat1 < -90")
    ELSE IF lat1(this) > MaxLat THEN Thrown("Invalid bbox: lat1 > 90")
    ELSE IF lon1(this) < -MaxLon THEN Thrown("Invalid bbox: lon1 < -180")
    ELSE IF lon1(this) > MaxLon THEN Thrown("Invalid bbox: lon1 > 180")
    ELSE IF lon2(this) < -MaxLon THEN Thrown("Invalid bbox: lon2 < -180")
    ELSE IF lon2(this) > MaxLon THEN Thrown("Invalid bbox: lon2 > 180")
    ELSE Built(this)

\* A plausible slip: inverted longitudes are "repaired" by swapping them.
BBoxCtor_SwapLons(bbox) ==
    LET t == ensureBBox2D(bbox)
        this == IF t[1] > t[3] THEN <<t[3], t[2], t[1], t[4]>> ELSE t IN
    IF lat1(this) > lat2(this) THEN Thrown("Invalid bbox: lat1 > lat2")
    ELSE IF lat1(this) < -MaxLat THEN Thrown("Invalid bbox: lat1 < -90")
    ELSE IF lat1(this) > MaxLat THEN Thrown("Invalid bbox: lat1 > 90")
    ELSE IF lon1(this) < -MaxLon THEN Thrown("Invalid bbox: lon1 < -180")
    ELSE IF lon1(this) > MaxLon THEN Thrown("Invalid bbox: lon1 > 180")
    ELSE IF lon2(this) < -MaxLon THEN Thrown("Invalid bbox: lon2 < -180")
    ELSE IF lon2(this) > MaxLon THEN Thrown("Invalid bbox: lon2 > 180")
    ELSE Built(this)

BBoxCtor(bbox) ==
    LET this == ensureBBox2D(bbox) IN
    IF lat1(this) > lat2(this) THEN Thrown("Invalid bbox: lat1 > lat2")
    ELSE IF lat1(this) < -MaxLat THEN Thrown("Invalid bbox: lat1 < -90")
    ELSE IF lat1(this) > MaxLat THEN Thrown("Invalid bbox: lat1 > 90")
    ELSE IF lon1(this) < -MaxLon THEN Thrown("Invalid bbox: lon1 < -180")
    ELSE IF lon1(this) > MaxLon THEN Thrown("Invalid bbox: lon1 > 180")
    ELSE IF lon2(this) < -MaxLon THEN Thrown("Invalid bbox: lon2 < -180")
    ELSE IF lon2(this) > MaxLon THEN Thrown("Invalid bbox: lon2 > 180")
    ELSE Built(this)

inverted(box) == lon1(box) > lon2(box)

wrapsAround(box) == inverted(box) \/ lon1(box) = -MaxLon \/ lon2(box) = MaxLon

(***************************************************************************)
(* contains(point), point = <<lon, lat>>                                   *)
(***************************************************************************)
\* A plausible slip: the edges of the box are excluded.
contains_OpenEdges(this, pt) ==
    LET lon == pt[1]
        lat == pt[2] IN
    IF lat <= lat1(this) \/ lat >= lat2(this) THEN FALSE
    ELSE IF inverted(this)
         THEN IF lon >= lon2(this) /\ lon <= lon1(this) THEN FALSE ELSE TRUE
         ELSE IF lon <= lon1(this) \/ lon >= lon2(this) THEN FALSE ELSE TRUE

contains(this, point) ==
    LET lon == point[1]
        lat == point[2] IN
    IF lat < lat1(this) \/ lat > lat2(this) THEN FALSE
    ELSE IF inverted(this)
         THEN IF lon > lon2(this) /\ lon < lon1(this) THEN FALSE ELSE TRUE
         ELSE IF lon < lon1(this) \/ lon > lon2(this) THEN FALSE ELSE TRUE

(***************************************************************************)
(* Construction: SpecCtor draws one raw array and runs the constructor.    *)
(***************************************************************************)
RawInputs ==
    { <<x1, y1, x2, y2>> : x1 \in RawLons, y1 \in RawLats, x2 \in RawLons, y2 \in RawLats }
    \cup
    { <<x1, y1, e1, x2, y2, e2>> :
        x1 \in LonGrid, y1 \in RawLats, e1 \in Elevations,
        x2 \in LonGrid, y2 \in RawLats, e2 \in Elevations }

InitCtor ==
    /\ input \in RawInputs
    /\ thePoint = <<>>
    /\ a = NoBox
    /\ b = NoBox
    /\ op = "none"
    /\ ret = NoRet
    /\ heap = <<>>
    /\ refs = <<>>

Construct ==
    /\ op = "none"
    /\ input # <<>>
    /\ op' = "construct"
    /\ ret' = BBoxCtor(input)
    /\ a' = ret'.bbox
    /\ UNCHANGED <<input, thePoint, b, heap, refs>>

NextCtor == Construct

SpecCtor == InitCtor /\ [][NextCtor]_vars

(***************************************************************************)
(* Longitude-range helpers.  A range is <<lon1, lon2>>.                    *)
(***************************************************************************)

\* A plausible slip: an inverted range loses its eastern copy.
denormalizeLonRange_NoEastCopy(range) ==
    LET l1 == range[1]
        l2 == range[2] IN
    IF l1 = -MaxLon /\ l2 = MaxLon THEN << <<l1, l2>> >>
    ELSE IF l1 = -MaxLon THEN << <<MaxLon, MaxLon>>, <<l1 + FullTurn, l2 + FullTurn>> >>
    ELSE IF l2 = MaxLon THEN << <<l1 - HalfTurn, l2 - HalfTurn>>, <<l1, l2>> >>
    ELSE IF l1 <= l2 THEN << <<l1, l2>> >>
    ELSE << <<l1 - FullTurn, l2>> >>

\* A plausible slip: the two copies of an inverted range are listed east first.
denormalizeLonRange_EastCopyFirst(range) ==
    LET l1 == range[1]
        l2 == range[2] IN
    IF l1 = -MaxLon /\ l2 = MaxLon THEN << <<l1, l2>> >>
    ELSE IF l1 = -MaxLon THEN << <<MaxLon, MaxLon>>, <<l1 + FullTurn, l2 + FullTurn>> >>
    ELSE IF l2 = MaxLon THEN << <<l1 - HalfTurn, l2 - HalfTurn>>, <<l1, l2>> >>
    ELSE IF l1 <= l2 THEN << <<l1, l2>> >>
    ELSE << <<l1, l2 + FullTurn>>, <<l1 - FullTurn, l2>> >>

\* A plausible slip: the special case for a range starting at -180 is forgotten.
denormalizeLonRange_NoWestEdgeCase(range) ==
    LET l1 == range[1]
        l2 == range[2] IN
    IF l1 = -MaxLon /\ l2 = MaxLon THEN << <<l1, l2>> >>
    ELSE IF l2 = MaxLon THEN << <<l1 - HalfTurn, l2 - HalfTurn>>, <<l1, l2>> >>
    ELSE IF l1 <= l2 THEN << <<l1, l2>> >>
    ELSE << <<l1 - FullTurn, l2>>, <<l1, l2 + FullTurn>> >>

\* A plausible slip: an inverted range is handed back as it is, not split.
denormalizeLonRange_NoSplit(range) ==
    LET l1 == range[1]
        l2 == range[2] IN
    IF l1 = -MaxLon /\ l2 = MaxLon THEN << <<l1, l2>> >>
    ELSE IF l1 = -MaxLon THEN << <<MaxLon, MaxLon>>, <<l1 + FullTurn, l2 + FullTurn>> >>
    ELSE IF l2 = MaxLon THEN << <<l1 - HalfTurn, l2 - HalfTurn>>, <<l1, l2>> >>
    ELSE << <<l1, l2>> >>

denormalizeLonRange(range) ==
    LET l1 == range[1]
        l2 == range[2] IN
    IF l1 = -MaxLon /\ l2 = MaxLon THEN << <<l1, l2>> >>
    ELSE IF l1 = -MaxLon THEN << <<MaxLon, MaxLon>>, <<l1 + FullTurn, l2 + FullTurn>> >>
    ELSE IF l2 = MaxLon THEN << <<l1 - HalfTurn, l2 - HalfTurn>>, <<l1, l2>> >>
    ELSE IF l1 <= l2 THEN << <<l1, l2>> >>
    ELSE << <<l1 - FullTurn, l2>>, <<l1, l2 + FullTurn>> >>

\* while (lon < -180) { lon += 360 }
RECURSIVE foldUp(_)
foldUp(lon) == IF lon < -MaxLon THEN foldUp(lon + FullTurn) ELSE lon

\* while (lon > 180) { lon -= 360 }
RECURSIVE foldDown(_)
foldDown(lon) == IF lon > MaxLon THEN foldDown(lon - FullTurn) ELSE lon

\* A plausible slip: only the "too small" loops are written.
normalizeLonRange_NoFoldDown(range) ==
    <<foldUp(range[1]), foldUp(range[2])>>

\* A plausible slip: an endpoint outside the range is clamped, not folded.
normalizeLonRange_Clamp(range) ==
    <<Max(-MaxLon, Min(MaxLon, range[1])), Max(-MaxLon, Min(MaxLon, range[2]))>>

normalizeLonRange(range) ==
    <<foldDown(foldUp(range[1])), foldDown(foldUp(range[2]))>>

(***************************************************************************)
(* overlaps(other)                                                         *)
(***************************************************************************)

\* A plausible slip: the second test compares against the wrong endpoint.
rangesTouch_WrongEndpoint(base, other) ==
    IF base[1] > other[2] THEN FALSE
    ELSE IF base[1] < other[1] THEN FALSE
    ELSE TRUE

\* A plausible slip: the comparisons are made non-strict, so ranges that
\* share only an endpoint are taken to be apart.
rangesTouch_Open(base, other) ==
    IF base[1] >= other[2] THEN FALSE
    ELSE IF base[2] <= other[1] THEN FALSE
    ELSE TRUE

\* The callback of baseRanges.some(... otherRanges.some(...)).
rangesTouch(base, other) ==
    IF base[1] > other[2] THEN FALSE
    ELSE IF base[2] < other[1] THEN FALSE
    ELSE TRUE

overlaps(this, other) ==
    IF lat1(this) > lat2(other) THEN FALSE
    ELSE IF lat2(this) < lat1(other) THEN FALSE
    ELSE LET baseRanges == denormalizeLonRange(<<lon1(this), lon2(this)>>)
             otherRanges == denormalizeLonRange(<<lon1(other), lon2(other)>>) IN
         \E i \in 1 .. Len(baseRanges) : \E j \in 1 .. Len(otherRanges) :
            rangesTouch(baseRanges[i], otherRanges[j])

(***************************************************************************)
(* intersect(other)                                                        *)
(***************************************************************************)

\* A plausible slip: the right range's end is taken without the minimum.
intersectRanges_RightEnd(left, right) ==
    LET l1 == Max(left[1], right[1])
        l2 == right[2] IN
    IF l1 > l2 THEN <<>> ELSE << <<l1, l2>> >>

\* The inner arrow function `intersect(left, right)`: zero or one range.
intersectRanges(left, right) ==
    LET l1 == Max(left[1], right[1])
        l2 == Min(left[2], right[2]) IN
    IF l1 > l2 THEN <<>> ELSE << <<l1, l2>> >>

\* A plausible slip: the loops are nested the other way round.
RECURSIVE pushIntersections_OtherOuter(_, _, _)
pushIntersections_OtherOuter(baseRanges, otherRanges, k) ==
    IF k >= Len(baseRanges) * Len(otherRanges) THEN <<>>
    ELSE LET i == (k % Len(baseRanges)) + 1
             j == (k \div Len(baseRanges)) + 1 IN
         intersectRanges(baseRanges[i], otherRanges[j])
            \o pushIntersections_OtherOuter(baseRanges, otherRanges, k + 1)

\* The nested for-loops: base ranges outside, other ranges inside.
RECURSIVE pushIntersections(_, _, _)
pushIntersections(baseRanges, otherRanges, k) ==
    IF k >= Len(baseRanges) * Len(otherRanges) THEN <<>>
    ELSE LET i == (k \div Len(otherRanges)) + 1
             j == (k % Len(otherRanges)) + 1 IN
         intersectRanges(baseRanges[i], otherRanges[j])
            \o pushIntersections(baseRanges, otherRanges, k + 1)

mapNormalize(ranges) == [i \in 1 .. Len(ranges) |-> normalizeLonRange(ranges[i])]

\* A plausible slip: the reduce never drops a range.
RECURSIVE dedupe_KeepAll(_, _)
dedupe_KeepAll(ranges, deduped) ==
    IF ranges = <<>> THEN deduped
    ELSE dedupe_KeepAll(Tail(ranges), Append(deduped, Head(ranges)))

\* normalized.reduce(...): keep the first occurrence of each range.
RECURSIVE dedupe(_, _)
dedupe(ranges, deduped) ==
    IF ranges = <<>> THEN deduped
    ELSE IF \E i \in 1 .. Len(deduped) : deduped[i] = Head(ranges)
         THEN dedupe(Tail(ranges), deduped)
         ELSE dedupe(Tail(ranges), Append(deduped, Head(ranges)))

BoxList(boxes) == [kind |-> "list", boxes |-> boxes, error |-> ""]

intersect(this, other) ==
    LET la1 == Max(lat1(this), lat1(other))
        la2 == Min(lat2(this), lat2(other)) IN
    IF la1 > la2 THEN BoxList(<<>>)
    ELSE LET baseRanges == denormalizeLonRange(<<lon1(this), lon2(this)>>)
             otherRanges == denormalizeLonRange(<<lon1(other), lon2(other)>>)
             intersections == pushIntersections(baseRanges, otherRanges, 0)
             normalized == mapNormalize(intersections)
             deduped == dedupe(normalized, <<>>)
             made == [i \in 1 .. Len(deduped) |->
                        BBoxCtor(<<deduped[i][1], la1, deduped[i][2], la2>>)] IN
         IF \E i \in 1 .. Len(made) : made[i].kind = "throw"
         THEN LET first == CHOOSE i \in 1 .. Len(made) :
                              /\ made[i].kind = "throw"
                              /\ \A j \in 1 .. i - 1 : made[j].kind # "throw" IN
              [kind |-> "throw", boxes |-> <<>>, error |-> made[first].error]
         ELSE BoxList([i \in 1 .. Len(made) |-> made[i].bbox])

(***************************************************************************)
(* Spec: two constructed boxes, then overlaps / intersect between them.    *)
(***************************************************************************)
GridTuples ==
    { <<x1, y1, x2, y2>> : x1 \in LonGrid, y1 \in LatGrid, x2 \in LonGrid, y2 \in LatGrid }

\* The boxes `new BBox(t)` yields for the grid's tuples.
Boxes == { BBoxCtor(t).bbox : t \in { u \in GridTuples : BBoxCtor(u).kind = "bbox" } }

Init ==
    /\ input = <<>>
    /\ thePoint = <<>>
    /\ a \in Boxes
    /\ b \in Boxes
    /\ op = "none"
    /\ ret = NoRet
    /\ heap = <<>>
    /\ refs = <<>>

Overlaps ==
    /\ op = "none"
    /\ a # NoBox /\ b # NoBox
    /\ op' = "overlaps"
    /\ ret' = overlaps(a, b)
    /\ UNCHANGED <<input, thePoint, a, b, heap, refs>>

Intersect ==
    /\ op = "none"
    /\ a # NoBox /\ b # NoBox
    /\ op' = "intersect"
    /\ ret' = intersect(a, b)
    /\ UNCHANGED <<input, thePoint, a, b, heap, refs>>

Next == Overlaps \/ Intersect

Spec == Init /\ [][Next]_vars

(***************************************************************************)
(* center.  The getter halves sums of coordinates; to keep the halves      *)
(* exact the returned point is held in half-degrees, i.e. as the           *)
(* numerators <<lon * 2, lat * 2>> of its coordinates over CenterDivisor.  *)
(***************************************************************************)
CenterDivisor == 2

\* A plausible slip: the inverted case forgets to add the full turn.
center_NoFullTurn(this) ==
    <<this[1] + this[3], this[2] + this[4]>>

center(this) ==
    LET lon == IF inverted(this)
               THEN this[1] + this[3] + FullTurn
               ELSE this[1] + this[3]
        lat == this[2] + this[4] IN
    <<lon, lat>>

(***************************************************************************)
(* SpecPoint: one constructed box and one point; contains(point) or the    *)
(* center getter runs on the box.                                          *)
(***************************************************************************)
Points == { <<x, y>> : x \in RawLons, y \in RawLats }

InitPoint ==
    /\ input = <<>>
    /\ thePoint \in Points
    /\ a \in Boxes
    /\ b = NoBox
    /\ op = "none"
    /\ ret = NoRet
    /\ heap = <<>>
    /\ refs = <<>>

Contains ==
    /\ op = "none"
    /\ a # NoBox /\ thePoint # <<>>
    /\ op' = "contains"
    /\ ret' = contains(a, thePoint)
    /\ UNCHANGED <<input, thePoint, a, b, heap, refs>>

Center ==
    /\ op = "none"
    /\ a # NoBox
    /\ op' = "center"
    /\ ret' = center(a)
    /\ UNCHANGED <<input, thePoint, a, b, heap, refs>>

NextPoint == Contains \/ Center

SpecPoint == InitPoint /\ [][NextPoint]_vars

(***************************************************************************)
(* SpecRange: two constructed boxes; a longitude helper runs the way       *)
(* overlaps and intersect call it: denormalizeLonRange on the longitudes   *)
(* of a box, normalizeLonRange on an intersection intersect has pushed.    *)
(***************************************************************************)
\* The intersections the nested loops of this.intersect(other) push; none
\* when intersect returns before the loops (latitude bands apart).
PassedToNormalize(this, other) ==
    IF Max(lat1(this), lat1(other)) > Min(lat2(this), lat2(other)) THEN {}
    ELSE LET pushed == pushIntersections(
                           denormalizeLonRange(<<lon1(this), lon2(this)>>),
                           denormalizeLonRange(<<lon1(other), lon2(other)>>), 0) IN
         { pushed[i] : i \in 1 .. Len(pushed) }

Denormalize ==
    /\ op = "none"
    /\ a # NoBox
    /\ input' = <<lon1(a), lon2(a)>>
    /\ op' = "denormalizeLonRange"
    /\ ret' = denormalizeLonRange(input')
    /\ UNCHANGED <<thePoint, a, b, heap, refs>>

Normalize ==
    /\ op = "none"
    /\ a # NoBox /\ b # NoBox
    /\ \E range \in PassedToNormalize(a, b) :
        /\ input' = range
        /\ op' = "normalizeLonRange"
        /\ ret' = normalizeLonRange(range)
    /\ UNCHANGED <<thePoint, a, b, heap, refs>>

NextRange == Denormalize \/ Normalize

SpecRange == Init /\ [][NextRange]_vars

(***************************************************************************)
(* SpecShared: the `bbox` arrays as objects on a heap.  Two boxes are      *)
(* constructed; then any of overlaps, intersect, contains, equals, center, *)
(* toArray and BBox.from runs on them, in any order, and the caller may    *)
(* write into the array toArray handed out.  heap maps an address to the   *)
(* array stored there; refs tells which address each reference holds:      *)
(* a and b the `bbox` fields of the two boxes, array the array toArray     *)
(* returned last, copy the `bbox` field of the box BBox.from returned      *)
(* last, this and arg the receiver and the argument of the last call.      *)
(***************************************************************************)
NoRef == "none"

world(latExtent) == BBoxCtor(<<-MaxLon, -latExtent, MaxLon, latExtent>>).bbox
zero == BBoxCtor(<<0, 0, 0, 0>>).bbox

equals(this, other) == this = other

southWest(this) == <<lon1(this), lat1(this)>>

\* A plausible slip: toArray hands out the stored array itself.
toArray_NoCopy(h, this) == [heap |-> h, ref |-> this]

\* `[...this.bbox]`: a fresh array with the same four numbers.
toArray(h, this) == [heap |-> [h EXCEPT !.array = h[this]], ref |-> "array"]

\* BBox.from(input) for a box: `new BBox([...input.bbox])`, a box on a fresh
\* array.
fromBBox(h, bboxRef) ==
    LET made == BBoxCtor(h[bboxRef]) IN
    IF made.kind = "throw" THEN [heap |-> h, ref |-> NoRef, error |-> made.error]
    ELSE [heap |-> [h EXCEPT !.copyBBox = made.bbox], ref |-> "copyBBox", error |-> ""]

\* BBox.from(input) for an array: `new BBox(input)`; ensureBBox2D hands a
\* 4-element array back as it is, so the new box stores the caller's array.
fromArray(h, arrayRef) ==
    LET made == BBoxCtor(h[arrayRef]) IN
    IF made.kind = "throw" THEN [heap |-> h, ref |-> NoRef, error |-> made.error]
    ELSE [heap |-> h, ref |-> arrayRef, error |-> ""]

\* What a caller writes into an array it was handed: no legal coordinate.
Written == MaxLon + MaxLat

BoxNames == { "a", "b" }

\* The first box: any longitudes, inverted or not, over a latitude band that
\* is symmetric about the equator, as the bands of world and zero are.
SharedBoxes == { box \in Boxes : lat1(box) = -lat2(box) }

InitShared ==
    /\ a \in SharedBoxes
    /\ b \in { zero, world(MaxLat) }
    /\ input = <<a, b>>
    /\ thePoint = <<>>
    /\ op = "none"
    /\ ret = NoRet
    /\ heap = [aBBox |-> a, bBBox |-> b, array |-> <<>>, copyBBox |-> <<>>]
    /\ refs = [a |-> "aBBox", b |-> "bBBox", array |-> NoRef, copy |-> NoRef,
               this |-> NoRef, arg |-> NoRef]

\* What every call leaves behind: the heap, the references, and a and b
\* read afresh through the boxes' references.
Called(h, r, x, y) ==
    /\ heap' = h
    /\ refs' = [r EXCEPT !.this = r[x], !.arg = IF y = NoRef THEN NoRef ELSE r[y]]
    /\ a' = h[r.a]
    /\ b' = h[r.b]
    /\ UNCHANGED input

CallOverlaps ==
    \E x \in BoxNames, y \in BoxNames :
        /\ op' = "overlaps"
        /\ ret' = overlaps(heap[refs[x]], heap[refs[y]])
        /\ Called(heap, refs, x, y)
        /\ thePoint' = <<>>

CallIntersect ==
    \E x \in BoxNames, y \in BoxNames :
        /\ op' = "intersect"
        /\ ret' = intersect(heap[refs[x]], heap[refs[y]])
        /\ Called(heap, refs, x, y)
        /\ thePoint' = <<>>

CallEquals ==
    \E x \in BoxNames, y \in BoxNames :
        /\ op' = "equals"
        /\ ret' = equals(heap[refs[x]], heap[refs[y]])
        /\ Called(heap, refs, x, y)
        /\ thePoint' = <<>>

\* x.contains(y.southWest)
CallContains ==
    \E x \in BoxNames, y \in BoxNames :
        /\ op' = "contains"
        /\ thePoint' = southWest(heap[refs[y]])
        /\ ret' = contains(heap[refs[x]], thePoint')
        /\ Called(heap, refs, x, NoRef)

CallCenter ==
    \E x \in BoxNames :
        /\ op' = "center"
        /\ ret' = center(heap[refs[x]])
        /\ Called(heap, refs, x, NoRef)
        /\ thePoint' = <<>>

CallToArray ==
    \E x \in BoxNames :
        LET out == toArray(heap, refs[x]) IN
        /\ op' = "toArray"
        /\ ret' = out.ref
        /\ Called(out.heap, [refs EXCEPT !.array = out.ref], x, NoRef)
        /\ thePoint' = <<>>

\* BBox.from(x) for a box x, or BBox.from(array) for the array toArray
\* returned.
CallFrom ==
    \E x \in BoxNames \cup { "array" } :
        /\ refs[x] # NoRef
        /\ LET out == IF x \in BoxNames THEN fromBBox(heap, refs[x])
                                         ELSE fromArray(heap, refs[x]) IN
           /\ op' = "from"
           /\ ret' = IF out.ref = NoRef THEN Thrown(out.error) ELSE Built(out.heap[out.ref])
           /\ Called(out.heap,
                     IF out.ref = NoRef THEN refs ELSE [refs EXCEPT !.copy = out.ref],
                     x, NoRef)
        /\ thePoint' = <<>>

\* The caller assigns to an element of the array toArray returned (one
\* assignment per array: enough to tell a copy from the stored array).
WriteArray ==
    \E i \in 1 .. 4 :
        /\ refs.array # NoRef
        /\ \A j \in 1 .. 4 : heap[refs.array][j] # Written
        /\ op' = "write"
        /\ ret' = NoRet
        /\ Called([heap EXCEPT ![refs.array][i] = Written], refs, "array", NoRef)
        /\ thePoint' = <<>>

NextShared ==
    \/ CallOverlaps
    \/ CallIntersect
    \/ CallEquals
    \/ CallContains
    \/ CallCenter
    \/ CallToArray
    \/ CallFrom
    \/ WriteArray

SpecShared == InitShared /\ [][NextShared]_vars

(***************************************************************************)
(* SpecCollection: FeatureCollection (src/src/FeatureCollection.ts).  A    *)
(* collection holds a reference to its `features` array; heap maps the     *)
(* address of an array to the features stored there, refs tells which      *)
(* array the collection c and its clone c2 hold (NoRef before the clone    *)
(* is made).  A feature is a Feature instance or a plain GeoJSON feature,  *)
(* told apart by `class`; `id` stands for the rest of its content.         *)
(***************************************************************************)
\* How many different features there are.
NumFeatures == 2
\* The longest feature list the model lets an array grow to.
MaxSize == 3
\* The most features handed to one call of add, of or addFrom.
MaxArgs == 2

Features == [class : { "Feature" }, id : 1 .. NumFeatures]
GeoJSONFeatures == [class : { "GeoJSON" }, id : 1 .. NumFeatures]

FeatureLists(items, n) == UNION { [1 .. k -> items] : k \in 0 .. n }

\* Feature.from: an instance is handed back, a GeoJSON feature is wrapped.
FeatureFrom(feature) ==
    IF feature.class = "Feature" THEN feature
    ELSE [class |-> "Feature", id |-> feature.id]

\* FeatureCollection.of(features): the array the new collection stores.
of(features) == [i \in 1 .. Len(features) |-> FeatureFrom(features[i])]

\* Array.prototype.splice(start, deleteCount) for 0 <= start <= length.
splice(list, start, deleteCount) ==
    SubSeq(list, 1, start) \o SubSeq(list, start + deleteCount + 1, Len(list))

\* A plausible slip: the clone gets an array of its own.
clone_CopiesFeatures(h, this) == [heap |-> [h EXCEPT !.copy = h[this]], ref |-> "copy"]

\* clone(): a new collection on the very same array.
clone(h, this) == [heap |-> h, ref |-> this]

add(h, this, features) ==
    [h EXCEPT ![this] = @ \o [i \in 1 .. Len(features) |-> FeatureFrom(features[i])]]

\* `collection` is a FeatureCollection (features: the address of its array)
\* or a GeoJSON collection (features: the list itself).
addFrom(h, this, collection) ==
    IF collection.class = "FeatureCollection"
    THEN [h EXCEPT ![this] = @ \o h[collection.features]]
    ELSE [h EXCEPT ![this] = @ \o [i \in 1 .. Len(collection.features) |->
                                        FeatureFrom(collection.features[i])]]

\* A plausible slip: the upper bound is tested with > instead of >=.
removeAt_OffByOne(h, this, index) ==
    IF index < 0 \/ index > Len(h[this])
    THEN [heap |-> h, error |-> "Index out of bounds"]
    ELSE [heap |-> [h EXCEPT ![this] = splice(@, index, 1)], error |-> ""]

removeAt(h, this, index) ==
    IF index < 0 \/ index >= Len(h[this])
    THEN [heap |-> h, error |-> "Index out of bounds"]
    ELSE [heap |-> [h EXCEPT ![this] = splice(@, index, 1)], error |-> ""]

clear(h, this) == [h EXCEPT ![this] = splice(@, 0, Len(@))]

Void == [kind |-> "void"]

\* The collections that exist: c, and c2 once the clone is made.
Collections == { x \in { "c", "c2" } : refs[x] # NoRef }

\* The collections a call of addFrom may be handed.
AddFromArgs ==
    { [class |-> "FeatureCollection", features |-> refs[y]] : y \in Collections }
        \cup { [class |-> "GeoJSON", features |-> fs] :
                  fs \in FeatureLists(GeoJSONFeatures, MaxArgs) }

\* c = FeatureCollection.of(features)
InitCollection ==
    /\ input = <<>>
    /\ thePoint = <<>>
    /\ a = NoBox
    /\ b = NoBox
    /\ op = "none"
    /\ ret = NoRet
    /\ \E features \in FeatureLists(Features \cup GeoJSONFeatures, MaxArgs) :
          heap = [features |-> of(features), copy |-> <<>>]
    /\ refs = [c |-> "features", c2 |-> NoRef]

\* c2 = c.clone()
Clone ==
    /\ refs.c2 = NoRef
    /\ LET out == clone(heap, refs.c) IN
       /\ heap' = out.heap
       /\ refs' = [refs EXCEPT !.c2 = out.ref]
       /\ ret' = [kind |-> "collection", features |-> out.ref]
    /\ op' = "clone"
    /\ input' = <<"c">>
    /\ UNCHANGED <<thePoint, a, b>>

Add ==
    \E x \in Collections :
    \E features \in FeatureLists(Features \cup GeoJSONFeatures, MaxArgs) :
        /\ Len(heap[refs[x]]) + Len(features) <= MaxSize
        /\ heap' = add(heap, refs[x], features)
        /\ op' = "add"
        /\ input' = <<x, features>>
        /\ ret' = Void
        /\ UNCHANGED <<thePoint, a, b, refs>>

AddFrom ==
    \E x \in Collections : \E collection \in AddFromArgs :
        /\ Len(addFrom(heap, refs[x], collection)[refs[x]]) <= MaxSize
        /\ heap' = addFrom(heap, refs[x], collection)
        /\ op' = "addFrom"
        /\ input' = <<x, collection>>
        /\ ret' = Void
        /\ UNCHANGED <<thePoint, a, b, refs>>

RemoveAt ==
    \E x \in Collections : \E index \in -1 .. MaxSize :
        LET out == removeAt(heap, refs[x], index) IN
        /\ heap' = out.heap
        /\ op' = "removeAt"
        /\ input' = <<x, index>>
        /\ ret' = IF out.error = "" THEN Void ELSE Thrown(out.error)
        /\ UNCHANGED <<thePoint, a, b, refs>>

Clear ==
    \E x \in Collections :
        /\ heap' = clear(heap, refs[x])
        /\ op' = "clear"
        /\ input' = <<x>>
        /\ ret' = Void
        /\ UNCHANGED <<thePoint, a, b, refs>>

NextCollection == Clone \/ Add \/ AddFrom \/ RemoveAt \/ Clear

SpecCollection == InitCollection /\ [][NextCollection]_vars

(***************************************************************************)
(* Reference notions used by the properties                                *)
(***************************************************************************)

\* The data-model invariants of a bounding box.
Valid(box) ==
    /\ Len(box) = 4
    /\ box[2] <= box[4]
    /\ -90 <= box[2] /\ box[2] <= 90
    /\ -90 <= box[4] /\ box[4] <= 90
    /\ -180 <= box[1] /\ box[1] <= 180
    /\ -180 <= box[3] /\ box[3] <= 180

Locations == { <<x, y>> : x \in LonGrid, y \in LatGrid }

\* A location lies in a box when contains accepts it, the meridians -180
\* and 180 being the same meridian.
LiesIn(loc, box) ==
    \/ contains(box, loc)
    \/ loc[1] = 180 /\ contains(box, <<-180, loc[2]>>)
    \/ loc[1] = -180 /\ contains(box, <<180, loc[2]>>)

ShareLocation(p, q) == \E loc \in Locations : LiesIn(loc, p) /\ LiesIn(loc, q)

LatBandsMeet(p, q) == p[2] <= q[4] /\ q[2] <= p[4]

(***************************************************************************)
(* Properties of construction (checked under SpecCtor)                     *)
(***************************************************************************)

\* C1: a four-tuple that satisfies every data-model invariant is accepted by
\* the constructor and stored unchanged, also when lon1 > lon2.
C1_ValidTupleStoredUnchanged ==
    (op = "construct" /\ Len(input) = 4 /\ Valid(input))
        => (ret.kind = "bbox" /\ ret.bbox = input /\ a = input)

C1_Witness ==
    /\ op = "construct"
    /\ Len(input) = 4
    /\ Valid(input)
    /\ input[1] > input[3]
    /\ ret.kind = "bbox"
    /\ a = input

\* C2: every box the constructor accepts satisfies all the data-model
\* invariants (lat1 <= lat2, both latitudes in [-90, 90], both longitudes in
\* [-180, 180]).
C2_AcceptedBoxIsValid ==
    (op = "construct" /\ ret.kind = "bbox") => Valid(ret.bbox)

\* C3: a tuple whose lat1 exceeds its lat2 always makes the constructor
\* throw; no box is produced and nothing is swapped.
C3_LatOrderAlwaysThrows ==
    (/\ op = "construct"
     /\ \/ Len(input) = 4 /\ input[2] > input[4]
        \/ Len(input) = 6 /\ input[2] > input[5])
        => (ret.kind = "throw" /\ a = NoBox)

C3_Witness ==
    /\ op = "construct"
    /\ Len(input) = 4
    /\ input[2] > input[4]
    /\ -90 <= input[4] /\ input[2] <= 90
    /\ -180 <= input[1] /\ input[1] <= 180
    /\ -180 <= input[3] /\ input[3] <= 180
    /\ ret.kind = "throw"
    /\ a = NoBox

(***************************************************************************)
(* Properties of overlaps (checked under Spec)                             *)
(***************************************************************************)

\* C4: for valid boxes, a.overlaps(b) is true exactly when some location
\* lies in both boxes (-180 and 180 being the same meridian).
C4_OverlapsIffShareLocation ==
    (op = "overlaps" /\ Valid(a) /\ Valid(b))
        => (ret <=> ShareLocation(a, b))

\* C5: overlaps is symmetric: a.overlaps(b) equals b.overlaps(a).
C5_OverlapsSymmetric ==
    (op = "overlaps" /\ Valid(a) /\ Valid(b)) => (ret = overlaps(b, a))

C5_Witness ==
    /\ op = "overlaps"
    /\ Valid(a) /\ Valid(b)
    /\ inverted(a) /\ ~inverted(b)
    /\ a[2] # b[2]
    /\ ret = TRUE

\* C6: two valid non-inverted boxes that share a boundary edge (a.lon2 =
\* b.lon1 with meeting latitude bands, or a.lat2 = b.lat1 with meeting
\* longitude ranges) overlap.
C6_AbuttingBoxesOverlap ==
    (/\ op = "overlaps"
     /\ Valid(a) /\ Valid(b)
     /\ a[1] <= a[3] /\ b[1] <= b[3]
     /\ \/ a[3] = b[1] /\ LatBandsMeet(a, b)
        \/ a[4] = b[2] /\ a[1] <= b[3] /\ b[1] <= a[3])
        => ret = TRUE

\* C7: for an inverted box a and a non-inverted box b whose latitude bands
\* meet, a.overlaps(b) is true exactly when b.lon2 >= a.lon1 or
\* b.lon1 <= a.lon2 (false only when b lies strictly inside a's gap).
C7_InvertedVersusPlain ==
    (/\ op = "overlaps"
     /\ Valid(a) /\ Valid(b)
     /\ a[1] > a[3] /\ b[1] <= b[3]
     /\ LatBandsMeet(a, b))
        => (ret <=> (b[3] >= a[1] \/ b[1] <= a[3]))

C7_Witness ==
    /\ op = "overlaps"
    /\ Valid(a) /\ Valid(b)
    /\ a[1] > a[3] /\ b[1] <= b[3]
    /\ LatBandsMeet(a, b)
    /\ a[3] < b[1] /\ b[3] < a[1]
    /\ ret = FALSE

\* C8: two valid boxes that both wrap around the date line (inverted, or
\* lon1 = -180, or lon2 = 180) and whose latitude bands meet always overlap.
C8_WrappingBoxesOverlap ==
    (/\ op = "overlaps"
     /\ Valid(a) /\ Valid(b)
     /\ wrapsAround(a) /\ wrapsAround(b)
     /\ LatBandsMeet(a, b))
        => ret = TRUE

C8_Witness ==
    /\ op = "overlaps"
    /\ Valid(a) /\ Valid(b)
    /\ a[1] = -180 /\ a[3] < 0
    /\ b[1] > 0 /\ b[3] = 180
    /\ LatBandsMeet(a, b)
    /\ ret = TRUE

(***************************************************************************)
(* Properties of intersect (checked under Spec)                            *)
(***************************************************************************)

\* C9: soundness of intersect: every location contained in a box returned
\* by a.intersect(b) is contained in both a and b.
C9_IntersectSound ==
    (op = "intersect" /\ Valid(a) /\ Valid(b))
        => /\ ret.kind = "list"
           /\ \A i \in 1 .. Len(ret.boxes) : \A loc \in Locations :
                LiesIn(loc, ret.boxes[i]) => (LiesIn(loc, a) /\ LiesIn(loc, b))

\* C10: completeness of intersect: every location contained in both a and b
\* is contained in at least one box returned by a.intersect(b).
C10_IntersectComplete ==
    (op = "intersect" /\ Valid(a) /\ Valid(b))
        => /\ ret.kind = "list"
           /\ \A loc \in Locations :
                (LiesIn(loc, a) /\ LiesIn(loc, b))
                    => \E i \in 1 .. Len(ret.boxes) : LiesIn(loc, ret.boxes[i])

BoxSet(boxes) == { boxes[i] : i \in 1 .. Len(boxes) }

\* C11: a.intersect(b) returns zero, one or two boxes, never three or more.
C11_AtMostTwoBoxes ==
    (op = "intersect" /\ Valid(a) /\ Valid(b))
        => (ret.kind = "list" /\ Len(ret.boxes) <= 2)

\* C12: a base that does not wrap around, intersected with an inverted
\* query that starts and ends inside it (base.lon1 <= query.lon2 <
\* query.lon1 <= base.lon2, latitude bands meeting), yields exactly the
\* western piece [base.lon1, query.lon2] and then the eastern piece
\* [query.lon1, base.lon2].
C12_TwoPiecesInOrder ==
    (/\ op = "intersect"
     /\ Valid(a) /\ Valid(b)
     /\ a[1] <= a[3] /\ a[1] # -180 /\ a[3] # 180
     /\ a[1] <= b[3] /\ b[3] < b[1] /\ b[1] <= a[3]
     /\ LatBandsMeet(a, b))
        => /\ ret.kind = "list"
           /\ ret.boxes = << <<a[1], Max(a[2], b[2]), b[3], Min(a[4], b[4])>>,
                             <<b[1], Max(a[2], b[2]), a[3], Min(a[4], b[4])>> >>

C12_Witness ==
    /\ op = "intersect"
    /\ Valid(a) /\ Valid(b)
    /\ a[1] <= a[3] /\ a[1] # -180 /\ a[3] # 180
    /\ a[1] <= b[3] /\ b[3] < b[1] /\ b[1] <= a[3]
    /\ a[2] < b[2] /\ b[2] < a[4]
    /\ ret.kind = "list"
    /\ Len(ret.boxes) = 2

\* C13: when the latitude bands of a and b do not meet, a.intersect(b) is
\* the empty list whatever the longitudes.
C13_NoLatOverlapGivesEmpty ==
    (/\ op = "intersect"
     /\ Valid(a) /\ Valid(b)
     /\ (a[2] > b[4] \/ a[4] < b[2]))
        => (ret.kind = "list" /\ ret.boxes = <<>>)

C13_Witness ==
    /\ op = "intersect"
    /\ Valid(a) /\ Valid(b)
    /\ a[4] < b[2]
    /\ a[1] > a[3] /\ b[1] = -180 /\ b[3] = 180
    /\ ret.kind = "list"
    /\ ret.boxes = <<>>

\* C14: a.intersect(a) is exactly [a] when a does not wrap around; when a
\* wraps around it is one or two boxes that together contain exactly the
\* locations a contains.
C14_SelfIntersection ==
    (op = "intersect" /\ Valid(a) /\ b = a)
        => /\ ret.kind = "list"
           /\ IF ~(a[1] > a[3] \/ a[1] = -180 \/ a[3] = 180)
              THEN ret.boxes = <<a>>
              ELSE /\ Len(ret.boxes) \in {1, 2}
                   /\ \A loc \in Locations :
                        LiesIn(loc, a) <=> \E i \in 1 .. Len(ret.boxes) : LiesIn(loc, ret.boxes[i])

\* C15: the boxes returned by a.intersect(b) are pairwise disjoint: no
\* location is contained in two different boxes of the result.
C15_ResultBoxesDisjoint ==
    (op = "intersect" /\ Valid(a) /\ Valid(b))
        => /\ ret.kind = "list"
           /\ \A i, j \in 1 .. Len(ret.boxes) :
                i # j => ~ShareLocation(ret.boxes[i], ret.boxes[j])

\* C16: intersect is commutative: a.intersect(b) and b.intersect(a) return
\* the same set of boxes.
C16_IntersectCommutes ==
    (op = "intersect" /\ Valid(a) /\ Valid(b))
        => /\ ret.kind = "list"
           /\ intersect(b, a).kind = "list"
           /\ BoxSet(ret.boxes) = BoxSet(intersect(b, a).boxes)

C16_Witness ==
    /\ op = "intersect"
    /\ Valid(a) /\ Valid(b)
    /\ a[1] > a[3] /\ b[1] <= b[3]
    /\ ret.kind = "list"
    /\ Len(ret.boxes) = 2

\* C17: intersect is total over valid boxes: it never throws, every
\* normalized interval with the common latitude band passing the
\* constructor's validation.
C17_IntersectNeverThrows ==
    (op = "intersect" /\ Valid(a) /\ Valid(b))
        => /\ ret.kind = "list"
           /\ \A i \in 1 .. Len(ret.boxes) : BBoxCtor(ret.boxes[i]).kind = "bbox"

C17_Witness ==
    /\ op = "intersect"
    /\ Valid(a) /\ Valid(b)
    /\ a[1] > a[3] /\ b[1] > b[3]
    /\ ret.kind = "list"
    /\ \E i \in 1 .. Len(ret.boxes) : ret.boxes[i][1] > ret.boxes[i][3]

(***************************************************************************)
(* Properties of contains and center (checked under SpecPoint)             *)
(***************************************************************************)

\* C18: contains(point) is true exactly when lat1 <= lat <= lat2 and the
\* longitude is accepted: lon1 <= lon <= lon2 for a non-inverted box, and
\* not strictly inside the gap (lon2 < lon < lon1) for an inverted one.
C18_ContainsExact ==
    (op = "contains" /\ Valid(a))
        => (ret <=> /\ a[2] <= thePoint[2] /\ thePoint[2] <= a[4]
                    /\ IF a[1] <= a[3]
                       THEN a[1] <= thePoint[1] /\ thePoint[1] <= a[3]
                       ELSE ~(a[3] < thePoint[1] /\ thePoint[1] < a[1]))

C18_Witness ==
    /\ op = "contains"
    /\ Valid(a)
    /\ a[1] > a[3]
    /\ thePoint[1] = a[1] /\ thePoint[2] = a[4]
    /\ ret = TRUE

\* C19: for every valid box, inverted ones included, the longitude of
\* center lies in [-180, 180] (ret holds it in half-degrees).
C19_CenterLonInRange ==
    (op = "center" /\ Valid(a))
        => (-180 * CenterDivisor <= ret[1] /\ ret[1] <= 180 * CenterDivisor)

\* C20: the center of every valid box falls inside the box:
\* box.contains(box.center) is true (both sides taken in half-degrees).
C20_CenterInsideBox ==
    (op = "center" /\ Valid(a))
        => contains([i \in 1 .. 4 |-> a[i] * CenterDivisor], ret)

C20_Witness ==
    /\ op = "center"
    /\ Valid(a)
    /\ a[1] > a[3]
    /\ a[2] < a[4]
    /\ ret[1] > 180 * CenterDivisor
    /\ contains([i \in 1 .. 4 |-> a[i] * CenterDivisor], ret)

(***************************************************************************)
(* Properties of the longitude helpers (checked under SpecRange)           *)
(***************************************************************************)

\* C22: for every lon1 and lon2 in [-180, 180], denormalizeLonRange returns
\* one or two intervals and each of them is non-inverted (its first
\* endpoint is at most its second).
C22_DenormalizedNotInverted ==
    (op = "denormalizeLonRange")
        => /\ Len(ret) \in {1, 2}
           /\ \A i \in 1 .. Len(ret) : Len(ret[i]) = 2 /\ ret[i][1] <= ret[i][2]

C22_Witness ==
    /\ op = "denormalizeLonRange"
    /\ input[1] > input[2]
    /\ Len(ret) = 2
    /\ ret[1][1] < ret[1][2] /\ ret[2][1] < ret[2][2]

\* C23: for a range ending exactly at 180 and not starting at -180,
\* denormalizeLonRange returns the range itself and a copy of it shifted one
\* full turn (360 degrees) to the west, and nothing else.
C23_EastEdgeShiftedFullTurn ==
    (op = "denormalizeLonRange" /\ input[2] = 180 /\ input[1] # -180)
        => { ret[i] : i \in 1 .. Len(ret) }
              = { input, <<input[1] - 360, input[2] - 360>> }

\* C24: for every interval intersect can hand to it, normalizeLonRange
\* terminates and returns two endpoints, each in [-180, 180] and each
\* congruent modulo 360 to the input endpoint at the same position.
C24_NormalizedEndpoints ==
    (op = "normalizeLonRange")
        => /\ Len(ret) = 2
           /\ \A i \in 1 .. 2 :
                /\ -180 <= ret[i] /\ ret[i] <= 180
                /\ (ret[i] - input[i]) % 360 = 0

\* The endpoints are folded one by one: a non-inverted interval reaching
\* past 180 comes back inverted.
C24_Witness ==
    /\ op = "normalizeLonRange"
    /\ input[1] < input[2]
    /\ input[2] > 180
    /\ ret[1] > ret[2]

(***************************************************************************)
(* Further properties of intersect (checked under Spec)                    *)
(***************************************************************************)

\* The positions, in the order the loops run (this-interval outside,
\* other-interval inside), at which an intersection with the longitudes of
\* `box` is produced by this.intersect(other).
ProducedAt(this, other, box) ==
    LET baseRanges == denormalizeLonRange(<<lon1(this), lon2(this)>>)
        otherRanges == denormalizeLonRange(<<lon1(other), lon2(other)>>) IN
    { (i - 1) * Len(otherRanges) + j :
        <<i, j>> \in { p \in (1 .. Len(baseRanges)) \X (1 .. Len(otherRanges)) :
            LET l1 == Max(baseRanges[p[1]][1], otherRanges[p[2]][1])
                l2 == Min(baseRanges[p[1]][2], otherRanges[p[2]][2]) IN
            /\ l1 <= l2
            /\ normalizeLonRange(<<l1, l2>>) = <<lon1(box), lon2(box)>> } }

FirstProducedAt(this, other, box) ==
    CHOOSE n \in ProducedAt(this, other, box) :
        \A m \in ProducedAt(this, other, box) : n <= m

\* C25: the list intersect returns holds no two boxes with the same four
\* numbers, and its boxes stand in the order in which their intervals were
\* first produced (this-interval outer loop, other-interval inner loop).
C25_NoDuplicatesFirstSeenOrder ==
    (op = "intersect" /\ Valid(a) /\ Valid(b) /\ ret.kind = "list")
        => /\ \A k \in 1 .. Len(ret.boxes) : ProducedAt(a, b, ret.boxes[k]) # {}
           /\ \A k \in 1 .. Len(ret.boxes) : \A l \in 1 .. Len(ret.boxes) :
                k < l => /\ ret.boxes[k] # ret.boxes[l]
                         /\ FirstProducedAt(a, b, ret.boxes[k])
                                < FirstProducedAt(a, b, ret.boxes[l])

\* A duplicate was dropped and two boxes remain, in loop order.
C25_Witness ==
    /\ op = "intersect"
    /\ Valid(a) /\ Valid(b)
    /\ ret.kind = "list"
    /\ Len(ret.boxes) = 2
    /\ Cardinality(ProducedAt(a, b, ret.boxes[1])) = 2
    /\ FirstProducedAt(a, b, ret.boxes[1]) < FirstProducedAt(a, b, ret.boxes[2])

\* C26: every box A.intersect(B) returns spans the common latitude band:
\* its lat1 is the larger of the two lat1 and its lat2 the smaller of the
\* two lat2.
C26_CommonLatitudeBand ==
    (op = "intersect" /\ Valid(a) /\ Valid(b) /\ ret.kind = "list")
        => \A k \in 1 .. Len(ret.boxes) :
            /\ ret.boxes[k][2] = (IF a[2] >= b[2] THEN a[2] ELSE b[2])
            /\ ret.boxes[k][4] = (IF a[4] <= b[4] THEN a[4] ELSE b[4])

\* The band is taken from both boxes: lat1 from the one, lat2 from the other.
C26_Witness ==
    /\ op = "intersect"
    /\ Valid(a) /\ Valid(b)
    /\ ret.kind = "list"
    /\ Len(ret.boxes) >= 1
    /\ a[2] < b[2] /\ a[4] < b[4]
    /\ ret.boxes[1][2] = b[2] /\ ret.boxes[1][4] = a[4]

\* C27: A.overlaps(B) is true exactly when A.intersect(B) is a non-empty
\* list.
C27_OverlapsIffIntersectNonEmpty ==
    /\ (op = "overlaps" /\ Valid(a) /\ Valid(b))
          => (ret = TRUE <=> (/\ intersect(a, b).kind = "list"
                              /\ intersect(a, b).boxes # <<>>))
    /\ (op = "intersect" /\ Valid(a) /\ Valid(b))
          => (overlaps(a, b) <=> (ret.kind = "list" /\ ret.boxes # <<>>))

\* Two boxes that share one corner only: they overlap and their
\* intersection is that corner.
C27_Witness ==
    /\ op = "overlaps"
    /\ Valid(a) /\ Valid(b)
    /\ a[1] < a[3] /\ a[3] = b[1] /\ b[1] < b[3]
    /\ a[2] < a[4] /\ a[4] = b[2] /\ b[2] < b[4]
    /\ -180 < a[1] /\ b[3] < 180
    /\ ret = TRUE
    /\ intersect(a, b).boxes = << <<a[3], a[4], a[3], a[4]>> >>

\* All four longitudes strictly between -180 and 180.
AwayFromSeam(p, q) ==
    \A x \in { p[1], p[3], q[1], q[3] } : -180 < x /\ x < 180

\* C28: when all four longitudes lie strictly between -180 and 180
\* (inverted boxes included), a location lies in some box of A.intersect(B)
\* exactly when it lies in both A and B, and the result has at most two
\* boxes.
C28_ExactAwayFromSeam ==
    (op = "intersect" /\ Valid(a) /\ Valid(b) /\ AwayFromSeam(a, b))
        => /\ ret.kind = "list"
           /\ Len(ret.boxes) <= 2
           /\ \A loc \in Locations :
                (\E k \in 1 .. Len(ret.boxes) : LiesIn(loc, ret.boxes[k]))
                    <=> (LiesIn(loc, a) /\ LiesIn(loc, b))

\* Two inverted boxes away from the seam whose intersection has two pieces.
C28_Witness ==
    /\ op = "intersect"
    /\ Valid(a) /\ Valid(b)
    /\ AwayFromSeam(a, b)
    /\ a[1] > a[3] /\ b[1] > b[3]
    /\ ret.kind = "list"
    /\ Len(ret.boxes) = 2

(***************************************************************************)
(* Immutability (checked under SpecShared)                                 *)
(***************************************************************************)

\* C21: a box is never mutated after construction: whatever calls of
\* overlaps, intersect, contains, equals, center, toArray and BBox.from have
\* run on it, as receiver or as argument, and whatever was written into an
\* array toArray returned, its four stored numbers are those it was
\* constructed with.
C21_NeverMutated ==
    (op \in { "overlaps", "intersect", "contains", "equals", "center",
              "toArray", "from", "write" })
        => /\ heap[refs.a] = input[1] /\ a = input[1]
           /\ heap[refs.b] = input[2] /\ b = input[2]

\* The array toArray(a) returned has been written to: it differs from the
\* box's numbers, which are as constructed.
C21_Witness ==
    /\ op = "write"
    /\ refs.array # NoRef
    /\ \E i \in 1 .. 4 : heap[refs.array][i] = Written
    /\ \E i \in 1 .. 4 : heap[refs.array][i] = input[1][i] /\ input[1][i] # input[2][i]
    /\ heap[refs.array] # heap[refs.a]
    /\ refs.copy # NoRef
    /\ a = input[1]

(***************************************************************************)
(* Properties of FeatureCollection (checked under SpecCollection)          *)
(***************************************************************************)

\* What one call x.removeAt(index) must do to the features of x.
RemoveAtAsTold(before, index, after, returned) ==
    IF index < 0 \/ index >= Len(before)
    THEN /\ returned.kind = "throw"
         /\ after = before
    ELSE /\ returned.kind # "throw"
         /\ Len(after) = Len(before) - 1
         /\ \A k \in 1 .. Len(after) :
                after[k] = IF k <= index THEN before[k] ELSE before[k + 1]

\* C29: removeAt(index) with index < 0 or index >= size raises an error and
\* leaves the feature list as it was; with a valid index it removes exactly
\* the feature at that position, keeps the others in their order and makes
\* size one less.
C29_RemoveAt ==
    [][ op' = "removeAt"
          => RemoveAtAsTold(heap[refs[input'[1]]], input'[2],
                            heap'[refs'[input'[1]]], ret') ]_vars

\* A feature in the middle of a list of three was removed.
C29_Witness ==
    /\ op = "removeAt"
    /\ input[2] = 1
    /\ ret.kind = "void"
    /\ Len(heap[refs[input[1]]]) = 2
    /\ heap[refs[input[1]]][1] # heap[refs[input[1]]][2]

\* C30: clone() shares the feature list with the original: once
\* c2 = c.clone() is made, whatever add, addFrom, removeAt and clear are
\* applied to c or to c2, both hold the same features in the same order.
C30_CloneSharesFeatures ==
    (op \in { "clone", "add", "addFrom", "removeAt", "clear" } /\ refs.c2 # NoRef)
        => heap[refs.c] = heap[refs.c2]

\* A feature added through the clone shows in the original.
C30_Witness ==
    /\ op = "add"
    /\ refs.c2 # NoRef
    /\ input[1] = "c2"
    /\ Len(input[2]) = 1
    /\ Len(heap[refs.c]) >= 2
    /\ heap[refs.c][Len(heap[refs.c])] = FeatureFrom(input[2][1])
    /\ heap[refs.c] = heap[refs.c2]

====
